---- MODULE Spec2Model ----
(***************************************************************************)
(* A model of testing_v3.py: the RSI / Fibonacci indicator functions, the  *)
(* BUY/SELL threshold rule, the fetch-or-simulate data source, the order   *)
(* dispatcher and the Tkinter window that drives them.                     *)
(*                                                                         *)
(* Numbers.  Prices are integers (the smallest currency unit).  A value    *)
(* that pandas/numpy computes by a division is kept as an exact fraction   *)
(* [num, den] with den >= 0; den = 0 is NaN (the result of 0/0), and every *)
(* ordered comparison with NaN is FALSE, as in IEEE arithmetic.  Fibonacci *)
(* levels are kept in thousandths (the ratios have three decimals).        *)
(***************************************************************************)
EXTENDS Integers, Sequences, FiniteSets, TLC

VARIABLES
    simulation_mode,   \* CONFIG['simulation_mode']
    KITE_AVAILABLE,    \* the kiteconnect import succeeded
    rsi_period,        \* CONFIG['analysis']['rsi_period']
    kite,              \* the module global: "None" or "client"
    pc,                \* "boot", "idle", or the modal dialog run_analysis is blocked in
    status_label,      \* text of the status label
    signal_label,      \* text of the signal label after "Latest Signals:"
    log_box,           \* lines of the Tk text widget
    logged,            \* lines the latest step sent to the 'TradingBot' logger
    frame,             \* locals of the run_analysis invocation in progress
    alerts,            \* messagebox.showinfo calls of the latest run_analysis
    sdk,               \* calls made into the broker SDK so far, by kind
    orders,            \* execute_order invocations so far
    ops,               \* clicks and direct calls so far
    ret,               \* the latest direct call of a module function and what it returned
    fn_in,             \* arguments of a pure function called on its own
    fn_out             \* its results

vars == <<simulation_mode, KITE_AVAILABLE, rsi_period, kite, pc, status_label,
          signal_label, log_box, logged, frame, alerts, sdk, orders, ops, ret,
          fn_in, fn_out>>

(***************************************************************************)
(* Bounds of the model.                                                    *)
(***************************************************************************)
\* Longest price series given to the indicator functions on their own.
MaxLen == 3
\* Largest rsi_period a configuration sets.
MaxPeriod == 2
\* Clicks (Run Analysis, Clear Log) and direct calls in one run of the program.
MaxOps == 2

(***************************************************************************)
(* Arithmetic helpers.                                                     *)
(***************************************************************************)
Abs(x) == IF x < 0 THEN -x ELSE x

NaN == [num |-> 0, den |-> 0]

IsNaN(q) == q.den = 0

Whole(n) == [num |-> n, den |-> 1]

\* q < k and q > k for an integer k; FALSE for NaN.
Less(q, k) == q.den > 0 /\ q.num < k * q.den

Greater(q, k) == q.den > 0 /\ q.num > k * q.den

Equals(q, k) == q.den > 0 /\ q.num = k * q.den

RECURSIVE SeqMax(_)
SeqMax(s) ==
    IF Len(s) = 1 THEN s[1]
    ELSE LET m == SeqMax(Tail(s)) IN IF s[1] >= m THEN s[1] ELSE m

RECURSIVE SeqMin(_)
SeqMin(s) ==
    IF Len(s) = 1 THEN s[1]
    ELSE LET m == SeqMin(Tail(s)) IN IF s[1] <= m THEN s[1] ELSE m

RECURSIVE SumRange(_, _, _)
SumRange(s, lo, hi) ==
    IF lo > hi THEN 0 ELSE s[lo] + SumRange(s, lo + 1, hi)

\* All sequences over S of length lo..hi.
SeqsOf(S, lo, hi) == UNION {[1..n -> S] : n \in lo..hi}

(***************************************************************************)
(* calculate_rsi                                                           *)
(***************************************************************************)
\* series.diff() at position i >= 2 (position 1 has no value).
Delta(series, i) == series[i] - series[i - 1]

\* delta.where(delta > 0, 0).fillna(0)
Gain(series) ==
    [i \in 1..Len(series) |->
        IF i > 1 /\ Delta(series, i) > 0 THEN Delta(series, i) ELSE 0]

\* (-delta.where(delta < 0, 0)).fillna(0)
Loss(series) ==
    [i \in 1..Len(series) |->
        IF i > 1 /\ Delta(series, i) < 0 THEN -Delta(series, i) ELSE 0]

\* x.rolling(window=period, min_periods=period) has a value at position i
\* once period samples exist.
RollingDefined(i, period) == i >= period

\* The window's sum at position i; its mean is this sum / period.
RollingSum(x, i, period) == SumRange(x, i - period + 1, i)

\* 100 - 100 / (1 + avg_gain / avg_loss) for the window sums g and l (the two
\* means share the divisor period): 0/0 is NaN and stays NaN; g/0 is inf,
\* 100 / (1 + inf) is 0 and the result 100; otherwise 100 * g / (g + l).
RsiValue(g, l) ==
    IF l = 0 /\ g = 0 THEN NaN
    ELSE IF l = 0 THEN Whole(100)
    ELSE [num |-> 100 * g, den |-> g + l]

calculate_rsi(series, period) ==
    LET gain == Gain(series)
        loss == Loss(series)
    IN  [i \in 1..Len(series) |->
            IF RollingDefined(i, period)
            THEN RsiValue(RollingSum(gain, i, period), RollingSum(loss, i, period))
            ELSE NaN]

(***************************************************************************)
(* fibonacci_levels                                                        *)
(***************************************************************************)
\* Levels are kept in thousandths: the ratios 0.236 ... have three decimals.
FibDen == 1000

FibKeys == <<"0.0%", "23.6%", "38.2%", "50.0%", "61.8%", "100.0%">>

FibLevelsHalfSwapped(prices) ==
    LET max_price == SeqMax(prices)
        min_price == SeqMin(prices)
        diff == max_price - min_price
    IN  [k \in {FibKeys[i] : i \in 1..6} |->
            CASE k = "0.0%" -> FibDen * max_price
              [] k = "23.6%" -> FibDen * max_price - 236 * diff
              [] k = "38.2%" -> FibDen * max_price - 382 * diff
              [] k = "50.0%" -> FibDen * max_price - 618 * diff
              [] k = "61.8%" -> FibDen * max_price - 500 * diff
              [] OTHER -> FibDen * min_price]

fibonacci_levels(prices) ==
    LET max_price == SeqMax(prices)
        min_price == SeqMin(prices)
        diff == max_price - min_price
    IN  [k \in {FibKeys[i] : i \in 1..6} |->
            CASE k = "0.0%" -> FibDen * max_price
              [] k = "23.6%" -> FibDen * max_price - 236 * diff
              [] k = "38.2%" -> FibDen * max_price - 382 * diff
              [] k = "50.0%" -> FibDen * max_price - 500 * diff
              [] k = "61.8%" -> FibDen * max_price - 618 * diff
              [] OTHER -> FibDen * min_price]

(***************************************************************************)
(* The signal rule of analyze_and_generate_signal                          *)
(***************************************************************************)
\* abs(latest_price - level) / level < 0.01, level in thousandths.  numpy
\* divides without raising: x/0 is inf or NaN (never < 0.01), and a negative
\* level makes the quotient <= 0.
Near(latest_price, level) ==
    IF level > 0 THEN 100 * Abs(FibDen * latest_price - level) < level
    ELSE level < 0

SignalRuleOldThresholds(latest_rsi, latest_price, fib_levels) ==
    LET buy_signal == Less(latest_rsi, 30) /\ Near(latest_price, fib_levels["100.0%"])
        sell_signal == /\ ~buy_signal
                       /\ Greater(latest_rsi, 70)
                       /\ Near(latest_price, fib_levels["0.0%"])
    IN  IF buy_signal THEN "BUY" ELSE IF sell_signal THEN "SELL" ELSE "None"

SignalRule(latest_rsi, latest_price, fib_levels) ==
    LET buy_signal == Less(latest_rsi, 50) /\ Near(latest_price, fib_levels["100.0%"])
        sell_signal == /\ ~buy_signal
                       /\ Greater(latest_rsi, 55)
                       /\ Near(latest_price, fib_levels["0.0%"])
    IN  IF buy_signal THEN "BUY" ELSE IF sell_signal THEN "SELL" ELSE "None"

(***************************************************************************)
(* Configuration and the broker client (module level, lines 66-77)         *)
(***************************************************************************)
\* CONFIG['instruments'] of the default configuration, as character strings.
NIFTY50 == <<"N", "I", "F", "T", "Y", "5", "0">>

BANKNIFTY == <<"B", "A", "N", "K", "N", "I", "F", "T", "Y">>

Instruments == [NIFTY |-> NIFTY50, BANKNIFTY |-> BANKNIFTY]

\* sub in s, for Python strings.
Contains(s, sub) ==
    \E i \in 1..(Len(s) - Len(sub) + 1) : SubSeq(s, i, i + Len(sub) - 1) = sub

\* What the KiteConnect constructor and set_access_token may do.
InitOutcomes == {"ok", "constructor_raises", "set_access_token_raises"}

KiteInitIgnoringMode(outcome) ==
    IF KITE_AVAILABLE
    THEN CASE outcome = "ok" ->
                [kite |-> "client", constructed |-> 1,
                 log |-> <<<<"INFO", "KiteConnect initialized successfully">>>>]
           [] outcome = "constructor_raises" ->
                [kite |-> "None", constructed |-> 1,
                 log |-> <<<<"ERROR", "Error initializing KiteConnect">>>>]
           [] OTHER ->
                [kite |-> "client", constructed |-> 1,
                 log |-> <<<<"ERROR", "Error initializing KiteConnect">>>>]
    ELSE [kite |-> "None", constructed |-> 0, log |-> <<>>]

\* kite = None, then the guarded construction: the global is assigned as soon
\* as the constructor returns, before set_access_token runs.
KiteInit(outcome) ==
    IF KITE_AVAILABLE /\ ~simulation_mode
    THEN CASE outcome = "ok" ->
                [kite |-> "client", constructed |-> 1,
                 log |-> <<<<"INFO", "KiteConnect initialized successfully">>>>]
           [] outcome = "constructor_raises" ->
                [kite |-> "None", constructed |-> 1,
                 log |-> <<<<"ERROR", "Error initializing KiteConnect">>>>]
           [] OTHER ->
                [kite |-> "client", constructed |-> 1,
                 log |-> <<<<"ERROR", "Error initializing KiteConnect">>>>]
    ELSE [kite |-> "None", constructed |-> 0, log |-> <<>>]

(***************************************************************************)
(* fetch_historical_data                                                   *)
(***************************************************************************)
\* Answers of kite.historical_data, as the closing prices of their bars: an
\* empty answer, a single bar, a fall, a rise, and a rise followed by a fall
\* to within 1% of the low.
LiveBars == {<<>>, <<204>>, <<204, 200>>, <<200, 204>>, <<200, 204, 201>>}

\* np.random.uniform(low, high) draws, as offsets from low (the program draws
\* 100 bars; a short draw stands for its last bars).
SimDraws == {<<900, 100>>, <<100, 900>>, <<100, 900, 100>>}

\* What the broker and the random generator do during one fetch: the broker
\* answers (the draw is then not looked at), or it raises and a draw follows.
Environments ==
    {[raises |-> FALSE, bars |-> b, draw |-> <<900, 100>>] : b \in LiveBars} \cup
    {[raises |-> TRUE, bars |-> <<>>, draw |-> d] : d \in SimDraws}

price_range(instrument_token) ==
    IF Contains(instrument_token, <<"N", "I", "F", "T", "Y">>)
       /\ ~Contains(instrument_token, <<"B", "A", "N", "K">>)
    THEN <<15000, 16000>>
    ELSE <<35000, 36000>>

\* pd.DataFrame(data) of a live answer: a default index, and no column at all
\* when the answer is empty.
LiveFrame(bars) ==
    [index |-> "RangeIndex", has_close |-> Len(bars) > 0, close |-> bars]

\* The simulated table: a DatetimeIndex and uniformly drawn columns.
SimFrame(instrument_token, draw) ==
    [index |-> "DatetimeIndex", has_close |-> TRUE,
     close |-> [i \in 1..Len(draw) |-> price_range(instrument_token)[1] + draw[i]]]

SimDataLine(instrument_token) ==
    IF instrument_token = NIFTY50
    THEN <<"INFO", "Using simulated data for NIFTY50">>
    ELSE <<"INFO", "Using simulated data for BANKNIFTY">>

FetchWithoutExcept(instrument_token, env) ==
    IF ~simulation_mode /\ kite # "None"
    THEN IF env.raises
         THEN [raised |-> TRUE, data |-> LiveFrame(<<>>), calls |-> 1, log |-> <<>>]
         ELSE [raised |-> FALSE, data |-> LiveFrame(env.bars), calls |-> 1,
               log |-> <<>>]
    ELSE [raised |-> FALSE, data |-> SimFrame(instrument_token, env.draw),
          calls |-> 0, log |-> <<SimDataLine(instrument_token)>>]

\* raised: an exception leaves the function; data: the returned table;
\* calls: the kite.historical_data calls made; log: the logger lines written.
fetch_historical_data(instrument_token, env) ==
    IF ~simulation_mode /\ kite # "None"
    THEN IF env.raises
         THEN [raised |-> FALSE, data |-> SimFrame(instrument_token, env.draw),
               calls |-> 1,
               log |-> <<<<"ERROR", "Error fetching historical data">>,
                         <<"INFO", "Falling back to simulation data">>,
                         SimDataLine(instrument_token)>>]
         ELSE [raised |-> FALSE, data |-> LiveFrame(env.bars), calls |-> 1,
               log |-> <<>>]
    ELSE [raised |-> FALSE, data |-> SimFrame(instrument_token, env.draw),
          calls |-> 0, log |-> <<SimDataLine(instrument_token)>>]

(***************************************************************************)
(* analyze_and_generate_signal                                             *)
(***************************************************************************)
\* result: <<>> when an exception leaves the function (data['close'] is a
\* KeyError on a table without columns), else the returned tuple.
analyze_and_generate_signal(instrument_token, env) ==
    LET f == fetch_historical_data(instrument_token, env)
    IN  IF f.raised \/ ~f.data.has_close
        THEN [raised |-> TRUE, calls |-> f.calls, log |-> f.log, result |-> <<>>]
        ELSE LET close == f.data.close
                 rsi == calculate_rsi(close, rsi_period)
                 fib_levels == fibonacci_levels(close)
                 latest_rsi == rsi[Len(close)]
                 latest_price == close[Len(close)]
             IN  [raised |-> FALSE, calls |-> f.calls,
                  log |-> f.log \o <<<<"INFO", "buy calc value">>,
                                     <<"INFO", "sell calc value">>>>,
                  result |-> <<[signal |-> SignalRule(latest_rsi, latest_price,
                                                      fib_levels),
                                price |-> latest_price,
                                rsi |-> latest_rsi,
                                fib |-> fib_levels]>>]

(***************************************************************************)
(* execute_order                                                           *)
(***************************************************************************)
\* What kite.place_order may do: raise, or return an order id.
OrderOutcomes == {[raises |-> TRUE, id |-> 0], [raises |-> FALSE, id |-> 7]}

\* Readings of int(time.time()).
Times == {1700000000, 1700000001}

ExecuteOrderRetrying(tradingsymbol, transaction_type, outcome, time) ==
    IF simulation_mode \/ kite = "None"
    THEN [value |-> [kind |-> "sim_order", n |-> time], calls |-> 0,
          log |-> <<<<"INFO", "SIMULATION: Order executed">>>>]
    ELSE IF outcome.raises
    THEN [value |-> [kind |-> "None", n |-> 0], calls |-> 2,
          log |-> <<<<"ERROR", "Order execution failed">>>>]
    ELSE [value |-> [kind |-> "order_id", n |-> outcome.id], calls |-> 1,
          log |-> <<<<"INFO", "Order executed">>>>]

\* value: the returned id, "sim_order_<time>", the SDK's id, or None;
\* calls: the kite.place_order calls made; log: the logger lines written.
execute_order(tradingsymbol, transaction_type, outcome, time) ==
    IF simulation_mode \/ kite = "None"
    THEN [value |-> [kind |-> "sim_order", n |-> time], calls |-> 0,
          log |-> <<<<"INFO", "SIMULATION: Order executed">>>>]
    ELSE IF outcome.raises
    THEN [value |-> [kind |-> "None", n |-> 0], calls |-> 1,
          log |-> <<<<"ERROR", "Order execution failed">>>>]
    ELSE [value |-> [kind |-> "order_id", n |-> outcome.id], calls |-> 1,
          log |-> <<<<"INFO", "Order executed">>>>]

(***************************************************************************)
(* TradingBotGUI                                                           *)
(***************************************************************************)
\* The fixed texts of the lines that TradingBotGUI.log writes; timestamps and
\* the numbers formatted into a line are left out.
StartLine == "Starting analysis for NIFTY and BANKNIFTY."

ResultLine == "NIFTY - Signal: ... BANKNIFTY - Signal: ..."

CompleteLine == "Analysis complete."

AlertLine(title) ==
    IF title = "NIFTY Signal" THEN "ALERT: NIFTY Signal" ELSE "ALERT: BANKNIFTY Signal"

\* TradingBotGUI.log: each message goes to the text widget and, as an INFO
\* line, to the logger.
AsInfo(messages) == [i \in 1..Len(messages) |-> <<"INFO", messages[i]>>]

\* f"{x:.2f}": the nearest hundredth (ties to even), or "nan".
Fmt2(q) ==
    IF IsNaN(q) THEN [text |-> "nan", hundredths |-> 0]
    ELSE LET n == 100 * q.num
             whole == n \div q.den
             rest == n % q.den
             up == \/ 2 * rest > q.den
                   \/ (2 * rest = q.den /\ whole % 2 = 1)
         IN  [text |-> "number", hundredths |-> IF up THEN whole + 1 ELSE whole]

\* The text put into signal_label after "Latest Signals:".
Summary(nifty, banknifty) ==
    <<[name |-> "NIFTY", signal |-> nifty.signal,
       price |-> Fmt2(Whole(nifty.price)), rsi |-> Fmt2(nifty.rsi)],
      [name |-> "BANKNIFTY", signal |-> banknifty.signal,
       price |-> Fmt2(Whole(banknifty.price)), rsi |-> Fmt2(banknifty.rsi)]>>

\* if signal: None is false, "BUY" and "SELL" are true.
Truthy(signal) == signal # "None"

OrdersAfterAnalysisEnabled(signal_nifty, nifty_token) ==
    IF signal_nifty \in {"BUY", "SELL"}
    THEN <<[tradingsymbol |-> nifty_token, transaction_type |-> signal_nifty]>>
    ELSE <<>>

\* The execute_order calls run_analysis makes after the alerts: the block is
\* commented out, so there are none.
OrdersAfterAnalysis(signal_nifty, nifty_token) == <<>>

\* The end of run_analysis, from the order block on.  box, lines, placed: the
\* widget lines, this step's logger lines and the sdk counters so far.
Finish(fr, box, lines, placed, shown) ==
    LET todo == OrdersAfterAnalysis(fr[1].signal, Instruments.NIFTY)
    IN  /\ IF todo = <<>>
           THEN /\ log_box' = box
                /\ logged' = lines
                /\ sdk' = placed
                /\ orders' = orders
           ELSE \E outcome \in OrderOutcomes, time \in Times :
                    LET r == execute_order(todo[1].tradingsymbol,
                                           todo[1].transaction_type, outcome, time)
                    IN  /\ log_box' = box \o <<"Executed order for NIFTY.">>
                        /\ logged' = lines \o r.log
                                           \o AsInfo(<<"Executed order for NIFTY.">>)
                        /\ sdk' = [placed EXCEPT !.place_order = @ + r.calls]
                        /\ orders' = orders + 1
        /\ status_label' = "Status: Idle"
        /\ pc' = "idle"
        /\ frame' = <<>>
        /\ alerts' = shown

\* messagebox.showinfo blocks run_analysis until the dialog is dismissed.
ShowAlert(fr, box, lines, placed, shown, title, signal, at) ==
    /\ alerts' = Append(shown, [title |-> title, signal |-> signal])
    /\ pc' = at
    /\ frame' = fr
    /\ log_box' = box
    /\ logged' = lines
    /\ sdk' = placed
    /\ status_label' = "Status: Running analysis..."
    /\ UNCHANGED orders

\* if signal_banknifty: show_alert("BANKNIFTY Signal", msg), then the rest.
BankniftyAlert(fr, box, lines, placed, shown) ==
    IF Truthy(fr[2].signal)
    THEN ShowAlert(fr, box, lines, placed, shown, "BANKNIFTY Signal", fr[2].signal,
                   "alert_banknifty")
    ELSE Finish(fr, box, lines, placed, shown)

\* if signal_nifty: show_alert("NIFTY Signal", msg), then the rest.
NiftyAlert(fr, box, lines, placed) ==
    IF Truthy(fr[1].signal)
    THEN ShowAlert(fr, box, lines, placed, <<>>, "NIFTY Signal", fr[1].signal,
                   "alert_nifty")
    ELSE BankniftyAlert(fr, box, lines, placed, <<>>)

\* An exception leaves run_analysis: Tk's callback wrapper reports it and the
\* event loop goes on; nothing after the raising line has run.
Aborted(box, lines, placed) ==
    /\ status_label' = "Status: Running analysis..."
    /\ log_box' = box
    /\ logged' = lines
    /\ sdk' = placed
    /\ pc' = "idle"
    /\ frame' = <<>>
    /\ alerts' = <<>>
    /\ UNCHANGED <<signal_label, orders>>

\* Values of CONFIG['analysis']['rsi_period'] the program is started with.
ConfiguredPeriods == {1, 2}

\* Init: the configuration file has been read; the module body has not run.
Init ==
    /\ simulation_mode \in BOOLEAN
    /\ KITE_AVAILABLE \in BOOLEAN
    /\ rsi_period \in ConfiguredPeriods
    /\ kite = "None"
    /\ pc = "boot"
    /\ status_label = "Status: Idle"
    /\ signal_label = <<>>
    /\ log_box = <<>>
    /\ logged = <<>>
    /\ frame = <<>>
    /\ alerts = <<>>
    /\ sdk = [KiteConnect |-> 0, historical_data |-> 0, place_order |-> 0]
    /\ orders = 0
    /\ ops = 0
    /\ ret = [fn |-> "None"]
    /\ fn_in = <<>>
    /\ fn_out = <<>>

\* The module body from the broker client on, and TradingBotGUI.__init__.
Startup ==
    /\ pc = "boot"
    /\ \E outcome \in InitOutcomes :
        LET k == KiteInit(outcome)
            greeting == <<"Trading Bot Initialized.",
                          IF simulation_mode THEN "Mode: Simulation"
                                             ELSE "Mode: Live Trading",
                          IF KITE_AVAILABLE THEN "Kite API Available: True"
                                            ELSE "Kite API Available: False">>
        IN  /\ kite' = k.kite
            /\ sdk' = [sdk EXCEPT !.KiteConnect = @ + k.constructed]
            /\ log_box' = log_box \o greeting
            /\ logged' = k.log \o AsInfo(greeting)
    /\ pc' = "idle"
    /\ UNCHANGED <<simulation_mode, KITE_AVAILABLE, rsi_period, status_label,
                   signal_label, frame, alerts, orders, ops, ret, fn_in, fn_out>>

\* A click on Run Analysis: run_analysis up to its end, to the first modal
\* dialog, or to the line that raises.
RunAnalysis ==
    /\ pc = "idle"
    /\ ops < MaxOps
    /\ ops' = ops + 1
    /\ \E envN \in Environments :
        LET box0 == log_box \o <<StartLine>>
            n == analyze_and_generate_signal(Instruments.NIFTY, envN)
            sdk1 == [sdk EXCEPT !.historical_data = @ + n.calls]
            lines1 == AsInfo(<<StartLine>>) \o n.log
        IN  IF n.raised
            THEN Aborted(box0, lines1, sdk1)
            ELSE \E envB \in Environments :
                    LET b == analyze_and_generate_signal(Instruments.BANKNIFTY, envB)
                        sdk2 == [sdk1 EXCEPT !.historical_data = @ + b.calls]
                        lines2 == lines1 \o b.log
                    IN  IF b.raised
                        THEN Aborted(box0, lines2, sdk2)
                        ELSE LET fr == <<n.result[1], b.result[1]>>
                                 shown == <<ResultLine, CompleteLine>>
                             IN  /\ signal_label' = Summary(fr[1], fr[2])
                                 /\ NiftyAlert(fr, box0 \o shown,
                                               lines2 \o AsInfo(shown), sdk2)
    /\ UNCHANGED <<simulation_mode, KITE_AVAILABLE, rsi_period, kite, ret, fn_in,
                   fn_out>>

\* The NIFTY dialog is dismissed: show_alert logs the alert and run_analysis
\* goes on.
DismissNiftyAlert ==
    /\ pc = "alert_nifty"
    /\ BankniftyAlert(frame, log_box \o <<AlertLine("NIFTY Signal")>>,
                      AsInfo(<<AlertLine("NIFTY Signal")>>), sdk, alerts)
    /\ UNCHANGED <<simulation_mode, KITE_AVAILABLE, rsi_period, kite, signal_label,
                   ops, ret, fn_in, fn_out>>

\* The BANKNIFTY dialog is dismissed.
DismissBankniftyAlert ==
    /\ pc = "alert_banknifty"
    /\ Finish(frame, log_box \o <<AlertLine("BANKNIFTY Signal")>>,
              AsInfo(<<AlertLine("BANKNIFTY Signal")>>), sdk, alerts)
    /\ UNCHANGED <<simulation_mode, KITE_AVAILABLE, rsi_period, kite, signal_label,
                   ops, ret, fn_in, fn_out>>

\* A click on Clear Log.
ClearLog ==
    /\ pc = "idle"
    /\ ops < MaxOps
    /\ ops' = ops + 1
    /\ log_box' = <<"Log cleared.">>
    /\ logged' = AsInfo(<<"Log cleared.">>)
    /\ UNCHANGED <<simulation_mode, KITE_AVAILABLE, rsi_period, kite, pc,
                   status_label, signal_label, frame, alerts, sdk, orders, ret,
                   fn_in, fn_out>>

Next ==
    \/ Startup
    \/ RunAnalysis
    \/ DismissNiftyAlert
    \/ DismissBankniftyAlert
    \/ ClearLog

\* The program driven through its window alone.
Spec == Init /\ [][Next]_vars

(***************************************************************************)
(* The module's functions called directly, besides the window.             *)
(***************************************************************************)
CallFetch ==
    /\ pc = "idle"
    /\ ops < MaxOps
    /\ ops' = ops + 1
    /\ \E token \in {NIFTY50, BANKNIFTY}, env \in Environments :
        LET f == fetch_historical_data(token, env)
        IN  /\ ret' = [fn |-> "fetch_historical_data", token |-> token,
                       live_raised |-> (f.calls > 0 /\ env.raises),
                       raised |-> f.raised, value |-> f.data, calls |-> f.calls,
                       log |-> f.log]
            /\ logged' = f.log
            /\ sdk' = [sdk EXCEPT !.historical_data = @ + f.calls]
    /\ UNCHANGED <<simulation_mode, KITE_AVAILABLE, rsi_period, kite, pc,
                   status_label, signal_label, log_box, frame, alerts, orders,
                   fn_in, fn_out>>

CallExecuteOrder ==
    /\ pc = "idle"
    /\ ops < MaxOps
    /\ ops' = ops + 1
    /\ \E side \in {"BUY", "SELL"}, outcome \in OrderOutcomes, time \in Times :
        LET r == execute_order(NIFTY50, side, outcome, time)
        IN  /\ ret' = [fn |-> "execute_order", side |-> side,
                       live_raised |-> (r.calls > 0 /\ outcome.raises),
                       live_id |-> IF r.calls > 0 /\ ~outcome.raises
                                   THEN outcome.id ELSE 0,
                       time |-> time, value |-> r.value, calls |-> r.calls,
                       log |-> r.log]
            /\ logged' = r.log
            /\ sdk' = [sdk EXCEPT !.place_order = @ + r.calls]
    /\ orders' = orders + 1
    /\ UNCHANGED <<simulation_mode, KITE_AVAILABLE, rsi_period, kite, pc,
                   status_label, signal_label, log_box, frame, alerts, fn_in,
                   fn_out>>

NextAPI ==
    \/ Next
    \/ CallFetch
    \/ CallExecuteOrder

\* The window and a caller of the module's functions.
SpecAPI == Init /\ [][NextAPI]_vars

(***************************************************************************)
(* The indicator functions and the signal rule on their own: the arguments *)
(* are drawn from bounded sets and each call stores its result.            *)
(***************************************************************************)
\* Closing prices of the series given to calculate_rsi and fibonacci_levels:
\* 201 is within 1% of 200, 204 is not.
IndPrices == {200, 201, 204}

\* Prices and levels given to the signal rule; they hold the midpoints of
\* (200, 202), (200, 204), (200, 208) and (204, 208).
SigPrices == {200, 201, 202, 204, 206, 208}

\* Latest RSI values given to the signal rule, NaN and both thresholds among them.
RsiInputs ==
    {NaN, Whole(0), Whole(30), Whole(40), [num |-> 4999, den |-> 100], Whole(50),
     Whole(52), Whole(55), [num |-> 5501, den |-> 100], Whole(60), Whole(70),
     Whole(100)}

NoOutput == [done |-> {}, rsi |-> <<>>, fib |-> <<>>, signal |-> "None"]

\* The program itself is not running in these specifications.
ProgramAtRest ==
    /\ simulation_mode = TRUE
    /\ KITE_AVAILABLE = FALSE
    /\ rsi_period = 1
    /\ kite = "None"
    /\ pc = "boot"
    /\ status_label = "Status: Idle"
    /\ signal_label = <<>>
    /\ log_box = <<>>
    /\ logged = <<>>
    /\ frame = <<>>
    /\ alerts = <<>>
    /\ sdk = [KiteConnect |-> 0, historical_data |-> 0, place_order |-> 0]
    /\ orders = 0
    /\ ops = 0
    /\ ret = [fn |-> "None"]

program_vars ==
    <<simulation_mode, KITE_AVAILABLE, rsi_period, kite, pc, status_label,
      signal_label, log_box, logged, frame, alerts, sdk, orders, ops, ret>>

InitIndicators ==
    /\ ProgramAtRest
    /\ fn_in \in [series : SeqsOf(IndPrices, 1, MaxLen), period : 1..MaxPeriod]
    /\ fn_out = NoOutput

CallRsi ==
    /\ "rsi" \notin fn_out.done
    /\ fn_out' = [fn_out EXCEPT !.done = @ \cup {"rsi"},
                                !.rsi = calculate_rsi(fn_in.series, fn_in.period)]
    /\ UNCHANGED <<fn_in, program_vars>>

CallFib ==
    /\ "fib" \notin fn_out.done
    /\ fn_out' = [fn_out EXCEPT !.done = @ \cup {"fib"},
                                !.fib = fibonacci_levels(fn_in.series)]
    /\ UNCHANGED <<fn_in, program_vars>>

NextIndicators == CallRsi \/ CallFib

SpecIndicators == InitIndicators /\ [][NextIndicators]_vars

InitSignal ==
    /\ ProgramAtRest
    /\ fn_in \in {a \in [rsi : RsiInputs, price : SigPrices,
                         low : SigPrices, high : SigPrices] : a.low <= a.high}
    /\ fn_out = NoOutput

CallSignalRule ==
    /\ "signal" \notin fn_out.done
    /\ fn_out' = [fn_out EXCEPT
                    !.done = @ \cup {"signal"},
                    !.signal = SignalRule(fn_in.rsi, fn_in.price,
                                          fibonacci_levels(<<fn_in.high, fn_in.low>>))]
    /\ UNCHANGED <<fn_in, program_vars>>

NextSignal == CallSignalRule

SpecSignal == InitSignal /\ [][NextSignal]_vars

(***************************************************************************)
(* Claims about the pure functions.                                        *)
(***************************************************************************)
\* The claim's own reading of "within 1%": |price - level| / level < 0.01
\* for a positive level, in price units.
WithinOnePercent(price, level) == 100 * Abs(price - level) < level

ClaimedSignal(rsi, price, level0, level100) ==
    IF ~IsNaN(rsi) /\ rsi.num < 50 * rsi.den /\ WithinOnePercent(price, level100)
    THEN "BUY"
    ELSE IF ~IsNaN(rsi) /\ rsi.num > 55 * rsi.den /\ WithinOnePercent(price, level0)
    THEN "SELL"
    ELSE "None"

SetMax(S) == CHOOSE m \in S : \A x \in S : x <= m

SetMin(S) == CHOOSE m \in S : \A x \in S : m <= x

Range(s) == {s[i] : i \in 1..Len(s)}

\* The six ratios, in thousandths, in the order of FibKeys.
ClaimedRatios == <<0, 236, 382, 500, 618, 1000>>

\* C5: for a non-empty series the 0% level is max(prices), the 100% level is
\* min(prices), each level is max - ratio * (max - min), and the levels do not
\* increase from 0% to 100%.
C5_FibonacciLevels ==
    "fib" \in fn_out.done =>
        LET hi == SetMax(Range(fn_in.series))
            lo == SetMin(Range(fn_in.series))
            f == fn_out.fib
        IN  /\ f["0.0%"] = 1000 * hi
            /\ f["100.0%"] = 1000 * lo
            /\ \A i \in 1..6 : f[FibKeys[i]] = 1000 * hi - ClaimedRatios[i] * (hi - lo)
            /\ \A i \in 1..5 : f[FibKeys[i]] >= f[FibKeys[i + 1]]

\* Levels have been computed for a series whose maximum and minimum differ.
C5_Witness ==
    /\ "fib" \in fn_out.done
    /\ Len(fn_in.series) >= 2
    /\ fn_out.fib["0.0%"] > fn_out.fib["50.0%"]
    /\ fn_out.fib["50.0%"] > fn_out.fib["100.0%"]

\* C6: calculate_rsi is NaN at every position before period samples have
\* accumulated and is a number at every position from the period-th on.
C6_RsiDefinedOnceEnoughSamples ==
    "rsi" \in fn_out.done =>
        \A i \in 1..Len(fn_in.series) :
            IsNaN(fn_out.rsi[i]) <=> (i < fn_in.period)

\* The half of C6 that the code keeps: NaN before period samples exist.
C6_NaNBeforePeriod ==
    "rsi" \in fn_out.done =>
        \A i \in 1..Len(fn_in.series) : i < fn_in.period => IsNaN(fn_out.rsi[i])

NonDecreasing(s) == \A i \in 1..(Len(s) - 1) : s[i] <= s[i + 1]

NonIncreasing(s) == \A i \in 1..(Len(s) - 1) : s[i] >= s[i + 1]

\* C7: with at least period samples, the latest RSI of a monotonically
\* increasing series is 100 and that of a monotonically decreasing series is
\* 0.  A constant series, which is both, is left out: only series that rise
\* (fall) from their first to their last price are held to the claim.
C7_MonotoneRsi ==
    "rsi" \in fn_out.done =>
        LET s == fn_in.series
            n == Len(s)
        IN  n >= fn_in.period =>
                /\ (NonDecreasing(s) /\ s[1] < s[n]) => Equals(fn_out.rsi[n], 100)
                /\ (NonIncreasing(s) /\ s[1] > s[n]) => Equals(fn_out.rsi[n], 0)

StrictlyIncreasing(s) == \A i \in 1..(Len(s) - 1) : s[i] < s[i + 1]

StrictlyDecreasing(s) == \A i \in 1..(Len(s) - 1) : s[i] > s[i + 1]

\* What the code does give: exactly 100 (0) for a strictly increasing
\* (decreasing) series of two or more prices.
C7_StrictlyMonotoneRsi ==
    "rsi" \in fn_out.done =>
        LET s == fn_in.series
            n == Len(s)
        IN  (n >= fn_in.period /\ n >= 2) =>
                /\ StrictlyIncreasing(s) => Equals(fn_out.rsi[n], 100)
                /\ StrictlyDecreasing(s) => Equals(fn_out.rsi[n], 0)

(***************************************************************************)
(* Claims about the data source, the order dispatcher and the window.      *)
(***************************************************************************)
LiveClient == ~simulation_mode /\ kite # "None"

HasLine(lines, level, text) == \E i \in 1..Len(lines) : lines[i] = <<level, text>>

\* A table of synthetic bars for the token: the simulation's index, and every
\* close inside the token's price range.
Synthetic(table, token) ==
    /\ table.index = "DatetimeIndex"
    /\ table.has_close
    /\ Len(table.close) > 0
    /\ \A i \in 1..Len(table.close) :
        IF token = NIFTY50 THEN table.close[i] \in 15000..16000
                           ELSE table.close[i] \in 35000..36000

\* C2: with simulation_mode false and a broker client, fetch_historical_data
\* calls historical_data exactly once; if the call raises, an error line is
\* logged and synthetic bars are returned; no exception leaves the function,
\* so every invocation returns a table.
C2_FetchFallsBack ==
    ret.fn = "fetch_historical_data" =>
        /\ ~ret.raised
        /\ LiveClient => ret.calls = 1
        /\ ret.live_raised =>
            /\ ret.calls = 1
            /\ HasLine(ret.log, "ERROR", "Error fetching historical data")
            /\ Synthetic(ret.value, ret.token)

\* A live call has raised and the caller holds synthetic bars.
C2_Witness ==
    /\ ret.fn = "fetch_historical_data"
    /\ LiveClient
    /\ ret.live_raised
    /\ ~ret.raised
    /\ ret.value.index = "DatetimeIndex"

\* C3: with simulation_mode true the broker client is never constructed,
\* historical_data and place_order are never called, fetches return synthetic
\* data and execute_order returns a fabricated id.
C3_SimulationMakesNoLiveCall ==
    simulation_mode =>
        /\ kite = "None"
        /\ sdk.KiteConnect = 0
        /\ sdk.historical_data = 0
        /\ sdk.place_order = 0
        /\ ret.fn = "fetch_historical_data" => Synthetic(ret.value, ret.token)
        /\ ret.fn = "execute_order" => ret.value.kind = "sim_order"

\* In simulation mode, with the SDK installed, an analysis has been displayed
\* and execute_order has then been called.
C3_Witness ==
    /\ simulation_mode
    /\ KITE_AVAILABLE
    /\ signal_label # <<>>
    /\ ret.fn = "execute_order"

\* C4 as stated: a fabricated id without an SDK call in simulation mode; with
\* simulation_mode false exactly one place_order call, its id on success and
\* None, after an error line, when it raises.
C4_LiveModePlacesOneOrder ==
    ret.fn = "execute_order" =>
        /\ simulation_mode =>
            /\ ret.calls = 0
            /\ ret.value = [kind |-> "sim_order", n |-> ret.time]
        /\ ~simulation_mode =>
            /\ ret.calls = 1
            /\ ret.live_raised =>
                /\ ret.value.kind = "None"
                /\ HasLine(ret.log, "ERROR", "Order execution failed")
            /\ ~ret.live_raised => ret.value = [kind |-> "order_id", n |-> ret.live_id]

\* C4 as amended: the fabricated id is returned, without an SDK call, when
\* simulation_mode is true or no broker client exists; the single place_order
\* call is made when simulation_mode is false and a client exists.
C4_ExecuteOrder ==
    ret.fn = "execute_order" =>
        /\ ~LiveClient =>
            /\ ret.calls = 0
            /\ ret.value = [kind |-> "sim_order", n |-> ret.time]
        /\ LiveClient =>
            /\ ret.calls = 1
            /\ ret.live_raised =>
                /\ ret.value.kind = "None"
                /\ HasLine(ret.log, "ERROR", "Order execution failed")
            /\ ~ret.live_raised => ret.value = [kind |-> "order_id", n |-> ret.live_id]

\* place_order has raised in live mode and execute_order has returned None.
C4_Witness ==
    /\ ret.fn = "execute_order"
    /\ LiveClient
    /\ ret.live_raised
    /\ ret.value.kind = "None"

IsSignal(s) == s \in {"BUY", "SELL"}

\* One alert for each instrument with a signal, NIFTY first.
ExpectedAlerts(signal_nifty, signal_banknifty) ==
    (IF IsSignal(signal_nifty)
     THEN <<[title |-> "NIFTY Signal", signal |-> signal_nifty]>> ELSE <<>>)
    \o (IF IsSignal(signal_banknifty)
        THEN <<[title |-> "BANKNIFTY Signal", signal |-> signal_banknifty]>>
        ELSE <<>>)

\* The summary on display is that of the invocation in progress.
ShowsFrame ==
    /\ Len(signal_label) = 2
    /\ \A i \in 1..2 :
        /\ signal_label[i].signal = frame[i].signal
        /\ signal_label[i].price.hundredths = 100 * frame[i].price

\* The latest run_analysis has run to its end.
RunCompleted ==
    pc = "idle" /\ status_label = "Status: Idle" /\ signal_label # <<>>

\* The logger lines of a step that are "Using simulated data for ..." lines.
SimulatedFor(lines) ==
    SelectSeq(lines, LAMBDA l : l[1] = "INFO" /\ l[2] \in
                  {"Using simulated data for NIFTY50",
                   "Using simulated data for BANKNIFTY"})

\* What holds of every click, whether its handler ends or is left by an
\* exception: NIFTY is analysed before BANKNIFTY; a dialog is open only after
\* the summary is displayed and "Analysis complete." is logged; when the
\* handler has ended, exactly one alert was shown for each instrument whose
\* signal is BUY or SELL, none for the others, so at most two.
AlertsFollowSummary ==
    /\ pc = "alert_nifty" =>
        /\ ShowsFrame
        /\ IsSignal(frame[1].signal)
        /\ alerts = <<[title |-> "NIFTY Signal", signal |-> frame[1].signal]>>
        /\ log_box[Len(log_box)] = "Analysis complete."
    /\ pc = "alert_banknifty" =>
        /\ ShowsFrame
        /\ IsSignal(frame[2].signal)
        /\ alerts = ExpectedAlerts(frame[1].signal, frame[2].signal)
        /\ log_box[Len(log_box) - (Len(alerts) - 1)] = "Analysis complete."
    /\ RunCompleted =>
        /\ alerts = ExpectedAlerts(signal_label[1].signal, signal_label[2].signal)
        /\ Len(alerts) <= 2
        /\ signal_label[1].name = "NIFTY" /\ signal_label[2].name = "BANKNIFTY"
    /\ (simulation_mode /\ logged # <<>> /\ logged[1] = <<"INFO", StartLine>>) =>
        /\ SimulatedFor(logged) = << <<"INFO", "Using simulated data for NIFTY50">>,
                                     <<"INFO", "Using simulated data for BANKNIFTY">> >>
        /\ signal_label[1].price.hundredths \in 1500000..1600000
        /\ signal_label[2].price.hundredths \in 3500000..3600000

\* Every analysis the log shows as started has, once run_analysis is no longer
\* executing, logged its result and its completion, and a summary is on display.
EveryClickShowsSummary ==
    pc = "idle" =>
        \A i \in 1..Len(log_box) :
            log_box[i] = StartLine =>
                /\ signal_label # <<>>
                /\ i + 2 <= Len(log_box)
                /\ log_box[i + 1] = ResultLine
                /\ log_box[i + 2] = CompleteLine

\* C8: each Run Analysis click analyses NIFTY and then BANKNIFTY and produces
\* one summary in the signal label; it shows exactly one alert for each
\* instrument whose signal is BUY or SELL and none for the others, and only
\* after the summary is displayed and "Analysis complete." is logged.
C8_EachClickSummaryThenAlerts == AlertsFollowSummary /\ EveryClickShowsSummary

\* C9: through the window alone, in either mode and whatever the signals,
\* execute_order is never invoked and no order is placed.
C9_NoOrderFromWindow == orders = 0 /\ sdk.place_order = 0

\* In live mode a run has ended with a BUY signal for NIFTY.
C9_Witness ==
    /\ RunCompleted
    /\ LiveClient
    /\ signal_label[1].signal = "BUY"
    /\ orders = 0

\* C10: whenever run_analysis is not executing, the status label is back at
\* "Status: Idle": no outcome of the data source leaves it at
\* "Status: Running analysis...".
C10_StatusReturnsToIdle == pc = "idle" => status_label = "Status: Idle"

====
